---- MODULE Spec2Model ----
(***************************************************************************)
(* Room-inventory reservation engine of the hotel booking API              *)
(* (src/app.py: /availability, /book, /bookings; src/seed/seed_hotel.py).  *)
(*                                                                         *)
(* Every request handler opens its own SQLite connection (get_db) and runs *)
(* inside `with get_db() as c:`.  The sqlite3 connection context manager   *)
(* commits when the block ends normally and rolls back when it is left by  *)
(* an exception.  The module keeps the committed database (inv, bookings)  *)
(* apart from the uncommitted pages of the one connection that holds the   *)
(* SQLite write lock (writer, wInv, wBookings).                            *)
(*                                                                         *)
(* Dates are ISO yyyy-mm-dd strings compared as TEXT by SQLite; for        *)
(* well-formed dates that order is the calendar order, so a date is        *)
(* modelled by its day number.                                             *)
(***************************************************************************)
EXTENDS Integers, Sequences, FiniteSets, TLC

\* ---------------------------------------------------------------- bounds
NumRoomTypes == 2      \* room types seeded (the seeder has 8)
SeedDays     == 2      \* days of inventory seeded (the seeder has 30)
MaxQty       == 3      \* largest quantity a client sends (BookIn allows 10)
MaxLimit     == 3      \* largest limit a client sends to /bookings (100 allowed)
MaxPrior     == 3      \* bookings made before the requests of a behaviour
MaxBoots     == 3      \* times the startup sequence runs on one database
LastBootDay  == 2      \* latest day on which the application is started
MaxCourses   == 2      \* courses an administrator adds
MaxSeats     == 2      \* largest number of seats of a new course

\* ------------------------------------------------------ program constants
SeedLeft == 5          \* seed_hotel: left = 5 rooms per night
QtyMin   == 1          \* BookIn.quantity: Field(1, ge=1, le=10)
QtyMax   == 10
LimitMin == 1          \* list_bookings: Query(10, ge=1, le=100)
LimitMax == 100
DemoLeft == 99         \* availability in DEMO_MODE: {"price": 0.0, "left": 99}

\* two requests are served, each by its own handler thread and connection;
\* the handlers are interchangeable and are numbered in order of arrival
Procs     == {1, 2}
RoomTypes == 1..NumRoomTypes
\* request dates reach two days past the seeded horizon
Dates     == 1..(SeedDays + 2)
Names     == {"ann"}
NoWriter  == 0

VARIABLES
    DEMO_MODE,   \* the DEMO_MODE flag read once at import
    inv,         \* committed room_inventory: <<room_type_id, date>> -> [price, left]
    bookings,    \* committed bookings table, in id order
    writer,      \* connection holding the SQLite write lock, or NoWriter
    wInv,        \* room_inventory as seen by the writer (uncommitted)
    wBookings,   \* bookings as seen by the writer (uncommitted)
    pc,          \* position of each handler
    req,         \* payload of the request each handler serves
    nights,      \* rows returned by the handler's pre-read
    idx,         \* position of the handler's decrement loop in nights
    outcome,     \* response of the handler
    mail,        \* results of the handler's calls of _send_booking_email
    resp,        \* arguments and body of the response of a read request
    room_types,  \* room_types table: the name of every row, in id order
    rowids,      \* room_inventory: the key of every row, in rowid order
    today,       \* date.today() of the latest startup
    boots,       \* startups run on the database so far
    courses,     \* committed courses table of src/api/app.py, in id order
    enrollments, \* committed enrollments table, in id order
    wCourses,    \* courses as seen by the writer (uncommitted)
    wEnrollments,\* enrollments as seen by the writer (uncommitted)
    seen         \* the row that the SELECT of enroll returned to the handler

\* the tables and the clock that only the startup sequence writes
seedState == <<room_types, rowids, today, boots>>

\* the tables of the course application and the row an enroll call holds
bcmState == <<courses, enrollments, wCourses, wEnrollments, seen>>

vars == <<DEMO_MODE, inv, bookings, writer, wInv, wBookings,
          pc, req, nights, idx, outcome, mail, resp, seedState, bcmState>>

\* --------------------------------------------------------------- seeding
\* d.weekday(), day 0 being a Monday
Weekday(d) == d % 7

\* ROOM_TYPES: a name is its position in the list
ROOM_TYPES == [i \in 1..NumRoomTypes |-> i]

\* base_price_for(name, d): the base price follows the name of the room
\* type, Saturday and Sunday cost 100 more.
base_price_for(name, d) ==
    (CASE name = 4 -> 880
       [] name = 5 -> 950
       [] name = 6 -> 1200
       [] name = 7 -> 2200
       [] name = 8 -> 700
       [] OTHER -> 600)
    + (IF Weekday(d) >= 5 THEN 100 ELSE 0)

Range(s) == {s[i] : i \in DOMAIN s}

\* CREATE TABLE IF NOT EXISTS: the first CREATE of a table fixes its schema
CreateTableIfNotExists(schema, new) == IF schema = "none" THEN new ELSE schema

\* room_types is created by init_hotel_db when app.py is imported
\* (name TEXT NOT NULL); the CREATE of seed_hotel (name TEXT NOT NULL UNIQUE)
\* runs later, in lifespan, and finds the table
RoomTypesSchema ==
    CreateTableIfNotExists(CreateTableIfNotExists("none", "name"), "name unique")

\* INSERT OR IGNORE INTO room_types (name): a row is ignored only when it
\* breaks a constraint of the table
InsertOrIgnoreRoomType(T, name) ==
    IF RoomTypesSchema = "name unique" /\ name \in Range(T) THEN T
    ELSE Append(T, name)

RECURSIVE InsertRoomTypes(_, _)
\* for rt in ROOM_TYPES: INSERT OR IGNORE INTO room_types
InsertRoomTypes(T, names) ==
    IF Len(names) = 0 THEN T
    ELSE InsertRoomTypes(InsertOrIgnoreRoomType(T, Head(names)), Tail(names))

EmptyInv == [k \in {} |-> [price |-> 0, left |-> 0]]

\* mutant: room_inventory without UNIQUE(room_type_id, date)
KeyConflictNever(R, k) == FALSE

\* UNIQUE(room_type_id, date): a row to insert breaks the constraint when
\* the table, whose row keys are R, has a row with key k
KeyConflict(R, k) == k \in Range(R)

\* mutant: INSERT OR REPLACE
OnConflictReplace(old, new) == new

\* INSERT OR IGNORE: on a conflict the existing row stays
OnConflict(old, new) == old

\* seed_hotel: for every row of room_types T and every day of
\* day .. day+days-1 one INSERT OR IGNORE of (rid, date, price, left = 5);
\* tbl = <<rowids, rows>>
SeedRows(tbl, T, day, days) ==
    LET P == [n \in 1..(Len(T) * days) |->
                <<((n - 1) \div days) + 1, day + ((n - 1) % days)>>]
        Row(k) == [price |-> base_price_for(T[k[1]], k[2]), left |-> SeedLeft]
        Inserted(k) == ~KeyConflict(tbl[1], k)
    IN <<tbl[1] \o SelectSeq(P, Inserted),
         [k \in DOMAIN tbl[2] \cup Range(P) |->
            IF k \notin DOMAIN tbl[2] THEN Row(k)
            ELSE IF k \in Range(P) THEN OnConflict(tbl[2][k], Row(k))
            ELSE tbl[2][k]]>>

\* seed_hotel on database db = <<room_types, rowids, rows>>
seed_hotel(db, day) ==
    LET T == InsertRoomTypes(db[1], ROOM_TYPES)
        tbl == SeedRows(<<db[2], db[3]>>, T, day, SeedDays)
    IN <<T, tbl[1], tbl[2]>>

\* the tables init_hotel_db creates
EmptyDb == <<<<>>, <<>>, EmptyInv>>

\* the database after the first startup
FirstDb == seed_hotel(EmptyDb, 1)

\* ------------------------------------------------------------ SQL helpers
RECURSIVE SortedDates(_)
\* ORDER BY date ASC
SortedDates(S) ==
    IF S = {} THEN <<>>
    ELSE LET m == CHOOSE x \in S : \A y \in S : x <= y
         IN <<m>> \o SortedDates(S \ {m})

\* mutant: the check_out date is read as a night of the stay
SelectNightsInclusive(I, rt, ci, co) ==
    LET ds == {d \in Dates : <<rt, d>> \in DOMAIN I /\ d >= ci /\ d <= co}
        sd == SortedDates(ds)
    IN [i \in 1..Len(sd) |-> [date |-> sd[i], left |-> I[<<rt, sd[i]>>].left]]

\* SELECT date, left FROM room_inventory
\*  WHERE room_type_id = ? AND date >= ? AND date < ? ORDER BY date ASC
SelectNights(I, rt, ci, co) ==
    LET ds == {d \in Dates : <<rt, d>> \in DOMAIN I /\ d >= ci /\ d < co}
        sd == SortedDates(ds)
    IN [i \in 1..Len(sd) |-> [date |-> sd[i], left |-> I[<<rt, sd[i]>>].left]]

\* mutant: the empty result is not rejected
NoNightsNever(ns) == FALSE

\* if not nights
NoNights(ns) == Len(ns) = 0

\* mutant: only the first night is compared with the quantity
AnySoldOutFirst(ns, qty) == Len(ns) > 0 /\ ns[1].left < qty

\* any(int(r["left"]) < qty for r in nights)
AnySoldOut(ns, qty) == \E i \in 1..Len(ns) : ns[i].left < qty

\* mutant: AND left > ?
UpdateMatchesStrict(I, rt, d, qty) ==
    <<rt, d>> \in DOMAIN I /\ I[<<rt, d>>].left > qty

\* mutants of the guard of the UPDATE
UpdateMatchesPositive(I, rt, d, qty) ==
    <<rt, d>> \in DOMAIN I /\ I[<<rt, d>>].left > 0

UpdateMatchesNoGuard(I, rt, d, qty) == <<rt, d>> \in DOMAIN I

\* rows matched by: UPDATE room_inventory ... WHERE room_type_id = ?
\*                    AND date = ? AND left >= ?
UpdateMatches(I, rt, d, qty) ==
    <<rt, d>> \in DOMAIN I /\ I[<<rt, d>>].left >= qty

\* mutant: the result of the UPDATE is not looked at
RowCountIgnored(I, rt, d, qty) == 1

\* cur.rowcount
RowCount(I, rt, d, qty) == IF UpdateMatches(I, rt, d, qty) THEN 1 ELSE 0

\* mutant: one room is taken whatever the quantity
GuardedUpdateByOne(I, rt, d, qty) ==
    IF UpdateMatches(I, rt, d, qty)
    THEN [I EXCEPT ![<<rt, d>>].left = @ - 1]
    ELSE I

\* mutant: AND date <= ?
GuardedUpdateUpTo(I, rt, d, qty) ==
    IF UpdateMatches(I, rt, d, qty)
    THEN [k \in DOMAIN I |->
            IF k[1] = rt /\ k[2] <= d THEN [I[k] EXCEPT !.left = @ - qty] ELSE I[k]]
    ELSE I

\* mutant: the UPDATE has no room_type_id in its WHERE clause
GuardedUpdateAllTypes(I, rt, d, qty) ==
    IF UpdateMatches(I, rt, d, qty)
    THEN [k \in DOMAIN I |->
            IF k[2] = d THEN [I[k] EXCEPT !.left = @ - qty] ELSE I[k]]
    ELSE I

\* SET left = left - ?
GuardedUpdate(I, rt, d, qty) ==
    IF UpdateMatches(I, rt, d, qty)
    THEN [I EXCEPT ![<<rt, d>>].left = @ - qty]
    ELSE I

\* qty = int(payload.quantity or 1)
Qty(r) == IF r.quantity = 0 THEN 1 ELSE r.quantity

\* mutant: a request equal to a booked one adds no row
InsertBookingDedup(B, r) ==
    IF \E i \in 1..Len(B) :
          /\ B[i].room_type_id = r.room_type /\ B[i].check_in = r.check_in
          /\ B[i].check_out = r.check_out /\ B[i].name = r.name
          /\ B[i].quantity = Qty(r)
    THEN B
    ELSE Append(B, [id |-> Len(B) + 1, room_type_id |-> r.room_type,
                    check_in |-> r.check_in, check_out |-> r.check_out,
                    name |-> r.name, quantity |-> Qty(r)])

\* mutant: the quantity column is left at its default
InsertBookingDefaultQty(B, r) ==
    Append(B, [id |-> Len(B) + 1, room_type_id |-> r.room_type,
               check_in |-> r.check_in, check_out |-> r.check_out,
               name |-> r.name, quantity |-> 1])

\* mutant: INSERT OR REPLACE with a fixed id
InsertBookingReplace(B, r) ==
    <<[id |-> 1, room_type_id |-> r.room_type,
       check_in |-> r.check_in, check_out |-> r.check_out,
       name |-> r.name, quantity |-> Qty(r)]>>

\* INSERT INTO bookings (...) VALUES (...): AUTOINCREMENT id
InsertBooking(B, r) ==
    Append(B, [id |-> Len(B) + 1, room_type_id |-> r.room_type,
               check_in |-> r.check_in, check_out |-> r.check_out,
               name |-> r.name, quantity |-> Qty(r)])

\* mutant: a connection in autocommit mode keeps what was written
ExitKeepsWork(committed, work) == work

\* sqlite3 connection __exit__ on an exception: ROLLBACK
ExitRollback(committed, work) == committed

\* c.commit(): the writer's pages become the committed database
Commit(committed, work) == work

\* mutant: the end date is left out of the availability calendar
SelectCalendarExclusive(I, rt, start, end) ==
    LET ds == {d \in Dates : <<rt, d>> \in DOMAIN I /\ d >= start /\ d < end}
        sd == SortedDates(ds)
    IN [i \in 1..Len(sd) |->
           [date |-> sd[i], price |-> I[<<rt, sd[i]>>].price,
            left |-> I[<<rt, sd[i]>>].left]]

\* SELECT date, price, left FROM room_inventory
\*  WHERE room_type_id = ? AND date >= ? AND date <= ? ORDER BY date ASC
SelectCalendar(I, rt, start, end) ==
    LET ds == {d \in Dates : <<rt, d>> \in DOMAIN I /\ d >= start /\ d <= end}
        sd == SortedDates(ds)
    IN [i \in 1..Len(sd) |->
           [date |-> sd[i], price |-> I[<<rt, sd[i]>>].price,
            left |-> I[<<rt, sd[i]>>].left]]

\* { r["date"]: {"price": float(r["price"]), "left": int(r["left"])} for r in rows }
CalendarDict(rows) ==
    [d \in {rows[i].date : i \in 1..Len(rows)} |->
        LET i == CHOOSE j \in 1..Len(rows) :
                    rows[j].date = d /\ \A m \in 1..Len(rows) : rows[m].date = d => m <= j
        IN [price |-> rows[i].price, left |-> rows[i].left]]

\* mutant: while d < e
DemoCalendarExclusive(start, end) ==
    [d \in start..(end - 1) |-> [price |-> 0, left |-> DemoLeft]]

\* availability in DEMO_MODE: every date of start .. end, price 0.0, left 99
DemoCalendar(start, end) == [d \in start..end |-> [price |-> 0, left |-> DemoLeft]]

\* mutant: ORDER BY id ASC
SelectBookingsAsc(B, limit) ==
    SubSeq(B, 1, IF limit <= Len(B) THEN limit ELSE Len(B))

RECURSIVE SelectBookings(_, _)
\* SELECT ... FROM bookings ORDER BY id DESC LIMIT ?
SelectBookings(B, limit) ==
    IF limit <= 0 \/ Len(B) = 0 THEN <<>>
    ELSE LET i == CHOOSE j \in 1..Len(B) : \A m \in 1..Len(B) : B[m].id <= B[j].id
         IN <<B[i]>> \o
            SelectBookings([m \in 1..(Len(B) - 1) |-> IF m < i THEN B[m] ELSE B[m + 1]],
                           limit - 1)

\* Query(10, ge=1, le=100)
ValidLimit(l) == l >= LimitMin /\ l <= LimitMax

\* mutant: Field(1, ge=0, le=10)
ValidQuantityGe0(q) == q >= 0 /\ q <= QtyMax

\* Pydantic validation of BookIn.quantity
ValidQuantity(q) == q >= QtyMin /\ q <= QtyMax

\* BookIn.  Every check_out before check_in selects the same (empty) set of
\* rows, so of those only the day before check_in is kept.
Payloads ==
    {r \in [room_type : RoomTypes, check_in : Dates, check_out : Dates,
             name : Names, quantity : 0..MaxQty] :
        r.check_out >= r.check_in - 1}

NoReq == [room_type |-> 0, check_in |-> 0, check_out |-> 0,
          name |-> "", quantity |-> 0]

NoResp == [kind |-> "none"]

\* availability(room_type, start, end); of the end dates before start only
\* the day before is kept
AvailArgs ==
    {a \in [room_type : RoomTypes, start : Dates, end : Dates] :
        a.end >= a.start - 1}

\* list_bookings(limit)
Limits == 0..MaxLimit

\* fetchone() found no row
NoRow == [id |-> 0, seats |-> 0]

\* EnrollmentIn: full_name or name, stripped; both may be missing
EnrollNames == {"", "ann"}

\* CourseIn.seats: Field(0, ge=0), stored as COALESCE(?, 0)
ValidSeats(n) == n >= 0

\* -------------------------------------------------------------------- Init
Init ==
    /\ DEMO_MODE \in BOOLEAN
    /\ room_types = FirstDb[1]
    /\ rowids = FirstDb[2]
    /\ inv = FirstDb[3]
    /\ today = 1
    /\ boots = 1
    /\ bookings = <<>>
    /\ writer = NoWriter
    /\ wInv = inv
    /\ wBookings = bookings
    /\ pc = [p \in Procs |-> "Idle"]
    /\ req = [p \in Procs |-> NoReq]
    /\ nights = [p \in Procs |-> <<>>]
    /\ idx = [p \in Procs |-> 0]
    /\ outcome = [p \in Procs |-> "none"]
    /\ mail = [p \in Procs |-> <<>>]
    /\ resp = [p \in Procs |-> NoResp]
    /\ courses = <<>>
    /\ enrollments = <<>>
    /\ wCourses = <<>>
    /\ wEnrollments = <<>>
    /\ seen = [p \in Procs |-> NoRow]

\* ----------------------------------------------------------------- actions
\* mutant: every handler reads the pages of the writing connection
VisibleUncommitted(p) == wInv

\* get_db: each handler has a connection of its own, which reads the
\* committed room_inventory unless it is itself the writer
Visible(p) == IF writer = p THEN wInv ELSE inv

\* mutant: a decrement that matched no row sends the request back to the
\* pre-read
RejectAndRetry(p, reason) ==
    /\ pc' = [pc EXCEPT ![p] = IF reason = "SoldOutRace" THEN "Checking" ELSE "Rejected"]
    /\ outcome' = [outcome EXCEPT ![p] = IF reason = "SoldOutRace" THEN @ ELSE reason]
    /\ inv' = IF writer = p THEN ExitRollback(inv, wInv) ELSE inv
    /\ bookings' = IF writer = p THEN ExitRollback(bookings, wBookings) ELSE bookings
    /\ writer' = IF writer = p THEN NoWriter ELSE writer
    /\ wInv' = IF writer = p THEN inv' ELSE wInv
    /\ wBookings' = IF writer = p THEN bookings' ELSE wBookings

\* the handler leaves the with-block by an exception
Reject(p, reason) ==
    /\ pc' = [pc EXCEPT ![p] = "Rejected"]
    /\ outcome' = [outcome EXCEPT ![p] = reason]
    /\ inv' = IF writer = p THEN ExitRollback(inv, wInv) ELSE inv
    /\ bookings' = IF writer = p THEN ExitRollback(bookings, wBookings) ELSE bookings
    /\ writer' = IF writer = p THEN NoWriter ELSE writer
    /\ wInv' = IF writer = p THEN inv' ELSE wInv
    /\ wBookings' = IF writer = p THEN bookings' ELSE wBookings

\* POST /book arrives with a payload of P
BookRequestFrom(p, P) ==
    /\ pc[p] = "Idle"
    /\ \A q \in Procs : q < p => pc[q] # "Idle"
    /\ \E r \in P : req' = [req EXCEPT ![p] = r]
    /\ pc' = [pc EXCEPT ![p] = "Validating"]
    /\ outcome' = [outcome EXCEPT ![p] = "none"]
    /\ nights' = [nights EXCEPT ![p] = <<>>]
    /\ idx' = [idx EXCEPT ![p] = 0]
    /\ mail' = [mail EXCEPT ![p] = <<>>]
    /\ UNCHANGED <<DEMO_MODE, bcmState, seedState, inv, bookings, writer, wInv, wBookings, resp>>

\* POST /book arrives
BookRequest(p) == BookRequestFrom(p, Payloads)

\* BookIn validation, the DEMO_MODE short cut, qty < 1
BookValidate(p) ==
    /\ pc[p] = "Validating"
    /\ IF ~ValidQuantity(req[p].quantity)
       THEN /\ pc' = [pc EXCEPT ![p] = "Rejected"]
            /\ outcome' = [outcome EXCEPT ![p] = "InvalidInput"]
       ELSE IF DEMO_MODE
       THEN /\ pc' = [pc EXCEPT ![p] = "Committed"]
            /\ outcome' = [outcome EXCEPT ![p] = "DemoOk"]
       ELSE IF Qty(req[p]) < 1
       THEN /\ pc' = [pc EXCEPT ![p] = "Rejected"]
            /\ outcome' = [outcome EXCEPT ![p] = "InvalidInput"]
       ELSE /\ pc' = [pc EXCEPT ![p] = "Checking"]
            /\ UNCHANGED outcome
    /\ UNCHANGED <<DEMO_MODE, bcmState, seedState, inv, bookings, writer, wInv, wBookings,
                   req, nights, idx, mail, resp>>

\* the pre-read and the two checks on its result
BookPreRead(p) ==
    /\ pc[p] = "Checking"
    /\ LET ns == SelectNights(Visible(p), req[p].room_type,
                              req[p].check_in, req[p].check_out)
       IN IF NoNights(ns)
          THEN Reject(p, "NoInventory") /\ UNCHANGED <<nights, idx>>
          ELSE IF AnySoldOut(ns, Qty(req[p]))
          THEN Reject(p, "SoldOut") /\ UNCHANGED <<nights, idx>>
          ELSE /\ pc' = [pc EXCEPT ![p] = "Admitting"]
               /\ nights' = [nights EXCEPT ![p] = ns]
               /\ idx' = [idx EXCEPT ![p] = 1]
               /\ UNCHANGED <<outcome, inv, bookings, writer, wInv, wBookings>>
    /\ UNCHANGED <<DEMO_MODE, bcmState, seedState, req, mail, resp>>

\* one iteration of: for r in nights: UPDATE ...; if cur.rowcount == 0: raise
BookDecrement(p) ==
    /\ pc[p] = "Admitting"
    /\ idx[p] <= Len(nights[p])
    /\ writer \in {NoWriter, p}
    /\ LET d == nights[p][idx[p]].date
           rt == req[p].room_type
           q == Qty(req[p])
       IN IF RowCount(wInv, rt, d, q) = 0
          THEN Reject(p, "SoldOutRace") /\ UNCHANGED idx
          ELSE /\ writer' = p
               /\ wInv' = GuardedUpdate(wInv, rt, d, q)
               /\ idx' = [idx EXCEPT ![p] = @ + 1]
               /\ UNCHANGED <<pc, outcome, inv, bookings, wBookings>>
    /\ UNCHANGED <<DEMO_MODE, bcmState, seedState, req, nights, mail, resp>>

\* INSERT INTO bookings after the loop
BookInsert(p) ==
    /\ pc[p] = "Admitting"
    /\ idx[p] > Len(nights[p])
    /\ writer \in {NoWriter, p}
    /\ writer' = p
    /\ wBookings' = InsertBooking(wBookings, req[p])
    /\ pc' = [pc EXCEPT ![p] = "Committing"]
    /\ UNCHANGED <<DEMO_MODE, bcmState, seedState, inv, bookings, wInv, req, nights, idx,
                   outcome, mail, resp>>

\* c.commit()
BookCommit(p) ==
    /\ pc[p] = "Committing"
    /\ writer = p
    /\ inv' = Commit(inv, wInv)
    /\ bookings' = Commit(bookings, wBookings)
    /\ writer' = NoWriter
    /\ wInv' = inv'
    /\ wBookings' = bookings'
    /\ pc' = [pc EXCEPT ![p] = "Notifying"]
    /\ UNCHANGED <<DEMO_MODE, bcmState, seedState, req, nights, idx, outcome, mail, resp>>

\* the UPDATE waits for the write lock held by another connection longer
\* than the connection's timeout: sqlite3.OperationalError, database is locked
BookLockTimeout(p) ==
    /\ pc[p] = "Admitting"
    /\ writer \notin {NoWriter, p}
    /\ Reject(p, "StorageError")
    /\ UNCHANGED <<DEMO_MODE, bcmState, seedState, req, nights, idx, mail, resp>>

\* a statement of the with-block raises sqlite3.Error (storage failure)
BookStorageError(p) ==
    /\ pc[p] \in {"Checking", "Admitting", "Committing"}
    /\ Reject(p, "StorageError")
    /\ UNCHANGED <<DEMO_MODE, bcmState, seedState, req, nights, idx, mail, resp>>

\* mutant: the exception of the e-mail helper is not caught
NotifyOutcomeUncaught(r) == IF r = "raised" THEN "StorageError" ELSE "Ok"

\* except Exception as e: print(...); return {"ok": True, ...}
NotifyOutcome(r) == "Ok"

\* try: _send_booking_email(...) except Exception: print(...).  The helper
\* returns (mail sent, or skipped for lack of credentials) or raises.
BookNotify(p) ==
    /\ pc[p] = "Notifying"
    /\ \E r \in {"returned", "raised"} :
          /\ mail' = [mail EXCEPT ![p] = Append(@, r)]
          /\ outcome' = [outcome EXCEPT ![p] = NotifyOutcome(r)]
          /\ pc' = [pc EXCEPT ![p] =
                      IF NotifyOutcome(r) = "Ok" THEN "Committed" ELSE "Rejected"]
    /\ UNCHANGED <<DEMO_MODE, bcmState, seedState, inv, bookings, writer, wInv, wBookings,
                   req, nights, idx, resp>>

\* mutant: the availability request takes a room of every night it reports
AvailabilityConsumes(p) ==
    /\ pc[p] = "Idle"
    /\ \A q \in Procs : q < p => pc[q] # "Idle"
    /\ writer = NoWriter
    /\ \E a \in AvailArgs :
          /\ resp' = [resp EXCEPT ![p] =
                        [kind |-> "availability", room_type |-> a.room_type,
                         start |-> a.start, end |-> a.end,
                         body |-> CalendarDict(SelectCalendar(Visible(p), a.room_type,
                                                              a.start, a.end))]]
          /\ inv' = [k \in DOMAIN inv |->
                       IF k[1] = a.room_type /\ k[2] >= a.start /\ k[2] <= a.end
                          /\ inv[k].left > 0
                       THEN [inv[k] EXCEPT !.left = @ - 1] ELSE inv[k]]
    /\ wInv' = inv'
    /\ pc' = [pc EXCEPT ![p] = "Answered"]
    /\ UNCHANGED <<DEMO_MODE, bcmState, seedState, bookings, writer, wBookings,
                   req, nights, idx, outcome, mail>>

\* GET /availability: one SELECT on the handler's connection
Availability(p) ==
    /\ pc[p] = "Idle"
    /\ \A q \in Procs : q < p => pc[q] # "Idle"
    /\ \E a \in AvailArgs :
          resp' = [resp EXCEPT ![p] =
                     [kind |-> "availability", room_type |-> a.room_type,
                      start |-> a.start, end |-> a.end,
                      body |-> IF DEMO_MODE
                               THEN DemoCalendar(a.start, a.end)
                               ELSE CalendarDict(SelectCalendar(Visible(p), a.room_type,
                                                                a.start, a.end))]]
    /\ pc' = [pc EXCEPT ![p] = "Answered"]
    /\ UNCHANGED <<DEMO_MODE, bcmState, seedState, inv, bookings, writer, wInv, wBookings,
                   req, nights, idx, outcome, mail>>

\* GET /bookings?limit=: validation of limit, then one SELECT
ListBookings(p) ==
    /\ pc[p] = "Idle"
    /\ \A q \in Procs : q < p => pc[q] # "Idle"
    /\ \E l \in Limits :
          IF ValidLimit(l)
          THEN /\ resp' = [resp EXCEPT ![p] =
                            [kind |-> "bookings", limit |-> l,
                             body |-> SelectBookings(bookings, l)]]
               /\ pc' = [pc EXCEPT ![p] = "Answered"]
               /\ UNCHANGED outcome
          ELSE /\ resp' = [resp EXCEPT ![p] =
                            [kind |-> "bookings", limit |-> l, body |-> <<>>]]
               /\ pc' = [pc EXCEPT ![p] = "Rejected"]
               /\ outcome' = [outcome EXCEPT ![p] = "InvalidInput"]
    /\ UNCHANGED <<DEMO_MODE, bcmState, seedState, inv, bookings, writer, wInv, wBookings,
                   req, nights, idx, mail>>

Next ==
    \E p \in Procs :
        \/ BookRequest(p)
        \/ BookValidate(p)
        \/ BookPreRead(p)
        \/ BookDecrement(p)
        \/ BookInsert(p)
        \/ BookCommit(p)
        \/ BookLockTimeout(p)
        \/ BookStorageError(p)
        \/ BookNotify(p)
        \/ Availability(p)

Spec == Init /\ [][Next]_vars

\* ------------------------------------------------- scheduled handlers
\* payloads of the attempts whose progress is followed: a stay from day 1,
\* for no room or for more than half of the seeded stock
LivePayloads ==
    {r \in Payloads : r.check_in = 1 /\ r.quantity \in {0, MaxQty}}

\* the statements of handler p that wait for nothing but the processor and,
\* for a write, the write lock
Runs(p) ==
    \/ BookValidate(p)
    \/ BookPreRead(p)
    \/ BookDecrement(p)
    \/ BookInsert(p)
    \/ BookCommit(p)
    \/ BookNotify(p)

NextLive ==
    \E p \in Procs :
        \/ BookRequestFrom(p, LivePayloads)
        \/ Runs(p)
        \/ BookLockTimeout(p)
        \/ BookStorageError(p)

\* every handler thread that can run a statement is scheduled
FairSpec ==
    /\ Init
    /\ [][NextLive]_vars
    /\ \A p \in Procs : WF_vars(Runs(p))

\* ------------------------------------------ the read requests on their own
RECURSIVE ApplyUpdates(_, _, _, _)
\* the decrement loop of book when no other request runs
ApplyUpdates(I, rt, ns, q) ==
    IF Len(ns) = 0 THEN I
    ELSE ApplyUpdates(GuardedUpdate(I, rt, ns[1].date, q), rt, Tail(ns), q)

\* a book request served alone from database db = <<inventory, bookings>>
BookAlone(db, r) ==
    LET ns == SelectNights(db[1], r.room_type, r.check_in, r.check_out)
    IN IF ~ValidQuantity(r.quantity) \/ NoNights(ns) \/ AnySoldOut(ns, Qty(r))
       THEN db
       ELSE <<ApplyUpdates(db[1], r.room_type, ns, Qty(r)), InsertBooking(db[2], r)>>

RECURSIVE BookAll(_, _)
BookAll(db, rs) ==
    IF Len(rs) = 0 THEN db ELSE BookAll(BookAlone(db, Head(rs)), Tail(rs))

\* earlier requests: one night of room type 1, one room
PriorPayloads ==
    {r \in Payloads : /\ r.room_type = 1 /\ r.quantity = 1
                      /\ r.check_in <= SeedDays /\ r.check_out = r.check_in + 1}

Histories == UNION {[1..n -> PriorPayloads] : n \in 0..MaxPrior}

\* the database after the seeding and a history of earlier bookings
InitRead ==
    /\ DEMO_MODE \in BOOLEAN
    /\ \E h \in Histories :
          LET db == BookAll(<<FirstDb[3], <<>>>>, h)
          IN inv = db[1] /\ bookings = db[2]
    /\ room_types = FirstDb[1]
    /\ rowids = FirstDb[2]
    /\ today = 1
    /\ boots = 1
    /\ writer = NoWriter
    /\ wInv = inv
    /\ wBookings = bookings
    /\ pc = [p \in Procs |-> "Idle"]
    /\ req = [p \in Procs |-> NoReq]
    /\ nights = [p \in Procs |-> <<>>]
    /\ idx = [p \in Procs |-> 0]
    /\ outcome = [p \in Procs |-> "none"]
    /\ mail = [p \in Procs |-> <<>>]
    /\ resp = [p \in Procs |-> NoResp]
    /\ courses = <<>>
    /\ enrollments = <<>>
    /\ wCourses = <<>>
    /\ wEnrollments = <<>>
    /\ seen = [p \in Procs |-> NoRow]

NextRead ==
    \E p \in Procs :
        \/ Availability(p)
        \/ ListBookings(p)

SpecRead == InitRead /\ [][NextRead]_vars

\* ------------------------------- committed operations, one after another
\* lifespan: the application is started again, on day t, on the database it
\* left; init_hotel_db finds its tables, seed_hotel runs in one transaction
Startup ==
    /\ boots < MaxBoots
    /\ writer = NoWriter
    /\ \E t \in {today, today + 1} :
          /\ t <= LastBootDay
          /\ LET db == seed_hotel(<<room_types, rowids, inv>>, t)
             IN /\ room_types' = db[1]
                /\ rowids' = db[2]
                /\ inv' = db[3]
          /\ today' = t
    /\ boots' = boots + 1
    /\ wInv' = inv'
    /\ UNCHANGED <<DEMO_MODE, bcmState, bookings, writer, wBookings,
                   pc, req, nights, idx, outcome, mail, resp>>

\* a book request served from its arrival to its response with no other
\* request in between
BookOp ==
    /\ writer = NoWriter
    /\ Len(bookings) < MaxPrior
    /\ \E r \in PriorPayloads :
          LET db == IF DEMO_MODE THEN <<inv, bookings>>
                    ELSE BookAlone(<<inv, bookings>>, r)
          IN /\ inv' = db[1]
             /\ bookings' = db[2]
    /\ wInv' = inv'
    /\ wBookings' = bookings'
    /\ UNCHANGED <<DEMO_MODE, bcmState, seedState, writer,
                   pc, req, nights, idx, outcome, mail, resp>>

NextOps ==
    \/ Startup
    \/ BookOp
    \/ Availability(1)
    \/ ListBookings(1)

SpecOps == Init /\ [][NextOps]_vars

\* --------------------------------------- courses and enrollments
\* the tables are those of src/api/app.py; the handlers, their connections
\* and the write lock are as above
hotelState == <<DEMO_MODE, inv, bookings, wInv, wBookings,
                nights, idx, mail, resp, seedState>>

\* ids of the rows of courses C (a deleted row keeps its place, not live)
LiveIds(C) == {i \in 1..Len(C) : C[i].live}

\* SELECT id, seats FROM courses ORDER BY id DESC LIMIT 1
LatestCourse(C) ==
    IF LiveIds(C) = {} THEN NoRow
    ELSE LET i == CHOOSE j \in LiveIds(C) : \A m \in LiveIds(C) : m <= j
         IN [id |-> i, seats |-> C[i].seats]

\* mutant: UPDATE courses SET seats = seats - 1 WHERE id = ?
DeductSeatNoGuard(C, id) ==
    IF id \in LiveIds(C) THEN [C EXCEPT ![id].seats = @ - 1] ELSE C

\* UPDATE courses SET seats = seats - 1 WHERE id = ? AND seats > 0
DeductSeat(C, id) ==
    IF id \in LiveIds(C) /\ C[id].seats > 0
    THEN [C EXCEPT ![id].seats = @ - 1]
    ELSE C

\* POST /courses: INSERT, SELECT of the new row, commit
AddCourse ==
    /\ writer = NoWriter
    /\ Len(courses) < MaxCourses
    /\ \E n \in 0..MaxSeats :
          /\ ValidSeats(n)
          /\ courses' = Append(courses, [seats |-> n, live |-> TRUE])
    /\ wCourses' = courses'
    /\ UNCHANGED <<hotelState, enrollments, wEnrollments, seen,
                   writer, pc, req, outcome>>

\* DELETE /courses/{course_id} of an existing course
DeleteCourse ==
    /\ writer = NoWriter
    /\ \E i \in LiveIds(courses) : courses' = [courses EXCEPT ![i].live = FALSE]
    /\ wCourses' = courses'
    /\ UNCHANGED <<hotelState, enrollments, wEnrollments, seen,
                   writer, pc, req, outcome>>

\* the handler leaves the with-block of enroll by an exception
EnrollReject(p, reason) ==
    /\ pc' = [pc EXCEPT ![p] = "Rejected"]
    /\ outcome' = [outcome EXCEPT ![p] = reason]
    /\ courses' = IF writer = p THEN ExitRollback(courses, wCourses) ELSE courses
    /\ enrollments' = IF writer = p THEN ExitRollback(enrollments, wEnrollments)
                      ELSE enrollments
    /\ writer' = IF writer = p THEN NoWriter ELSE writer
    /\ wCourses' = IF writer = p THEN courses' ELSE wCourses
    /\ wEnrollments' = IF writer = p THEN enrollments' ELSE wEnrollments

\* POST /enroll arrives; 422 when neither full_name nor name is given
EnrollRequest(p) ==
    /\ pc[p] = "Idle"
    /\ \A q \in Procs : q < p => pc[q] # "Idle"
    /\ \E n \in EnrollNames :
          /\ req' = [req EXCEPT ![p] = [NoReq EXCEPT !.name = n]]
          /\ IF n = ""
             THEN /\ pc' = [pc EXCEPT ![p] = "Rejected"]
                  /\ outcome' = [outcome EXCEPT ![p] = "InvalidInput"]
             ELSE /\ pc' = [pc EXCEPT ![p] = "Selecting"]
                  /\ outcome' = [outcome EXCEPT ![p] = "none"]
    /\ UNCHANGED <<hotelState, bcmState, writer>>

\* pick latest course; 404 without a course; ok False when it is full
EnrollSelect(p) ==
    /\ pc[p] = "Selecting"
    /\ LET row == LatestCourse(IF writer = p THEN wCourses ELSE courses)
       IN IF row = NoRow
          THEN EnrollReject(p, "NoCourse") /\ UNCHANGED seen
          ELSE /\ seen' = [seen EXCEPT ![p] = row]
               /\ IF row.seats <= 0
                  THEN /\ pc' = [pc EXCEPT ![p] = "Returned"]
                       /\ outcome' = [outcome EXCEPT ![p] = "Full"]
                  ELSE /\ pc' = [pc EXCEPT ![p] = "Deducting"]
                       /\ UNCHANGED outcome
               /\ UNCHANGED <<courses, enrollments, wCourses, wEnrollments, writer>>
    /\ UNCHANGED <<hotelState, req>>

\* deduct seat: the UPDATE takes the write lock; its rowcount is not read
EnrollDeduct(p) ==
    /\ pc[p] = "Deducting"
    /\ writer \in {NoWriter, p}
    /\ writer' = p
    /\ wCourses' = DeductSeat(wCourses, seen[p].id)
    /\ pc' = [pc EXCEPT ![p] = "Recording"]
    /\ UNCHANGED <<hotelState, courses, enrollments, wEnrollments, seen,
                   req, outcome>>

\* record enrollment: INSERT INTO enrollments
EnrollInsert(p) ==
    /\ pc[p] = "Recording"
    /\ writer = p
    /\ wEnrollments' = Append(wEnrollments,
                              [id |-> Len(wEnrollments) + 1, full_name |-> req[p].name])
    /\ pc' = [pc EXCEPT ![p] = "Confirming"]
    /\ UNCHANGED <<hotelState, courses, enrollments, wCourses, seen,
                   writer, req, outcome>>

\* conn.commit() and return ok True
EnrollCommit(p) ==
    /\ pc[p] = "Confirming"
    /\ writer = p
    /\ courses' = Commit(courses, wCourses)
    /\ enrollments' = Commit(enrollments, wEnrollments)
    /\ writer' = NoWriter
    /\ wCourses' = courses'
    /\ wEnrollments' = enrollments'
    /\ pc' = [pc EXCEPT ![p] = "Returned"]
    /\ outcome' = [outcome EXCEPT ![p] = "Ok"]
    /\ UNCHANGED <<hotelState, seen, req>>

\* the UPDATE waits for the write lock longer than the timeout
EnrollLockTimeout(p) ==
    /\ pc[p] = "Deducting"
    /\ writer \notin {NoWriter, p}
    /\ EnrollReject(p, "StorageError")
    /\ UNCHANGED <<hotelState, seen, req>>

\* a statement of the with-block raises sqlite3.Error
EnrollStorageError(p) ==
    /\ pc[p] \in {"Selecting", "Deducting", "Recording", "Confirming"}
    /\ EnrollReject(p, "StorageError")
    /\ UNCHANGED <<hotelState, seen, req>>

NextEnroll ==
    \/ AddCourse
    \/ DeleteCourse
    \/ \E p \in Procs :
          \/ EnrollRequest(p)
          \/ EnrollSelect(p)
          \/ EnrollDeduct(p)
          \/ EnrollInsert(p)
          \/ EnrollCommit(p)
          \/ EnrollLockTimeout(p)
          \/ EnrollStorageError(p)

SpecEnroll == Init /\ [][NextEnroll]_vars

\* ------------------------------------------------------------ properties
\* night d of room type rt lies in the range of request or booking r
InRange(rt, ci, co, k) == k[1] = rt /\ ci <= k[2] /\ k[2] < co

ReqCovers(r, k) == InRange(r.room_type, r.check_in, r.check_out, k)

BookingCovers(b, k) == InRange(b.room_type_id, b.check_in, b.check_out, k)

\* every row of the range of r reduced by r.quantity, nothing else changed
DecrementAll(I, r) ==
    [k \in DOMAIN I |->
        IF ReqCovers(r, k) THEN [I[k] EXCEPT !.left = @ - r.quantity] ELSE I[k]]

InBlock == {"Checking", "Admitting", "Committing"}

\* C1: every room_inventory row has left >= 0 in every reachable state, in
\* the committed database and in the uncommitted view of the writer.
C1_LeftNonNegative ==
    /\ \A k \in DOMAIN inv : inv[k].left >= 0
    /\ \A k \in DOMAIN wInv : wInv[k].left >= 0

\* a request lost the race and the row it wanted has less than it asked for
C1_Witness ==
    \E p \in Procs :
        /\ pc[p] = "Rejected" /\ outcome[p] = "SoldOutRace"
        /\ \E k \in DOMAIN inv :
              ReqCovers(req[p], k) /\ inv[k].left < req[p].quantity

Admitted(k, q) ==
    Cardinality({i \in 1..Len(bookings) :
                    BookingCovers(bookings[i], k) /\ bookings[i].quantity = q})

NoOversell ==
    \A k \in DOMAIN inv : \A q \in 1..MaxQty : Admitted(k, q) <= SeedLeft \div q

\* a well-formed request that asks for at least one night with a row
AsksSeededNight(r) ==
    /\ ValidQuantity(r.quantity)
    /\ \E k \in DOMAIN inv : ReqCovers(r, k)

\* C3 as stated: at most floor(R/q) requests of quantity q are admitted for
\* a night seeded with R, and every other request gets SoldOut or SoldOutRace.
C3_Original ==
    /\ NoOversell
    /\ \A p \in Procs :
          (pc[p] = "Rejected" /\ AsksSeededNight(req[p]))
             => outcome[p] \in {"SoldOut", "SoldOutRace"}

\* C3 amended: at most floor(R/q) requests of quantity q are admitted for a
\* night seeded with R; every other request gets SoldOut, SoldOutRace or,
\* when a statement fails in storage, the storage error.
C3_NoOversell ==
    /\ NoOversell
    /\ \A p \in Procs :
          (pc[p] = "Rejected" /\ AsksSeededNight(req[p]))
             => outcome[p] \in {"SoldOut", "SoldOutRace", "StorageError"}

\* floor(R/q) requests were admitted for a night and one more lost the race
C3_Witness ==
    \E p \in Procs : \E k \in DOMAIN inv :
        /\ pc[p] = "Rejected" /\ outcome[p] = "SoldOutRace"
        /\ ReqCovers(req[p], k)
        /\ Admitted(k, req[p].quantity) = SeedLeft \div req[p].quantity

\* nights of the stay of request r: check_in .. check_out - 1
StayNights(r) == {d \in Dates : r.check_in <= d /\ d < r.check_out}

\* the request of handler p is committed
Admittedp(p) ==
    /\ pc[p] \in {"Notifying", "Committed"}
    /\ outcome[p] # "DemoOk"

\* C4: a request is admitted only if every night of check_in .. check_out-1
\* has an inventory row of its room type; a range with a night that has no
\* row is rejected with NoInventory.
C4_EveryNightHasRow ==
    \A p \in Procs :
        /\ Admittedp(p) =>
              \A d \in StayNights(req[p]) : <<req[p].room_type, d>> \in DOMAIN inv
        /\ (pc[p] = "Rejected" /\ outcome[p] # "StorageError"
               /\ ValidQuantity(req[p].quantity)
               /\ \E d \in StayNights(req[p]) :
                     <<req[p].room_type, d>> \notin DOMAIN inv)
              => outcome[p] = "NoInventory"

\* the UPDATE of the night at idx[p] would match no row for handler p
GuardFails(p) ==
    /\ pc[p] = "Admitting"
    /\ idx[p] <= Len(nights[p])
    /\ writer \in {NoWriter, p}
    /\ ~UpdateMatches(wInv, req[p].room_type, nights[p][idx[p]].date,
                      req[p].quantity)

Moves(p) == pc'[p] # pc[p] \/ idx'[p] # idx[p]

\* C5: when the guarded UPDATE of a night matches no row, the request is
\* rejected as SoldOutRace, and every night it had already decremented is
\* back at its value before the decrement when the error is returned.
C5_RaceRollback ==
    [][ \A p \in Procs :
          (GuardFails(p) /\ Moves(p) /\ outcome'[p] # "StorageError")
             => /\ pc'[p] = "Rejected"
                /\ outcome'[p] = "SoldOutRace"
                /\ writer' = NoWriter
                /\ bookings' = bookings
                /\ \A i \in 1..(idx[p] - 1) :
                      LET k == <<req[p].room_type, nights[p][i].date>>
                      IN /\ wInv[k].left = inv[k].left - req[p].quantity
                         /\ inv'[k].left = wInv[k].left + req[p].quantity
                         /\ wInv'[k] = inv'[k] ]_vars

\* a request lost the race on its second night, after decrementing the first
C5_Witness ==
    \E p \in Procs :
        /\ pc[p] = "Rejected" /\ outcome[p] = "SoldOutRace"
        /\ idx[p] = 2
        /\ inv[<<req[p].room_type, nights[p][1].date>>].left = nights[p][1].left

Commits(p) == pc[p] = "Committing" /\ pc'[p] = "Notifying"

\* C6: checkout exclusivity.  The commit of a request changes left of a
\* row exactly when the row's date d has check_in <= d < check_out; the row
\* of the check_out date keeps its value.
C6_CheckoutExclusive ==
    [][ \A p \in Procs :
          Commits(p) =>
             /\ req[p].check_in < req[p].check_out
             /\ \A k \in DOMAIN inv :
                   (inv'[k].left # inv[k].left) <=> ReqCovers(req[p], k)
             /\ <<req[p].room_type, req[p].check_out>> \in DOMAIN inv =>
                   inv'[<<req[p].room_type, req[p].check_out>>] =
                      inv[<<req[p].room_type, req[p].check_out>>] ]_vars

\* a booking is committed whose check_out date has a row, still untouched
C6_Witness ==
    \E p \in Procs :
        /\ pc[p] = "Notifying"
        /\ <<req[p].room_type, req[p].check_out>> \in DOMAIN inv
        /\ inv[<<req[p].room_type, req[p].check_out>>].left = SeedLeft
        /\ inv[<<req[p].room_type, req[p].check_in>>].left =
              SeedLeft - req[p].quantity

\* the pre-read of handler p completes with a result (no storage error)
PreReads(p) ==
    pc[p] = "Checking" /\ pc'[p] # "Checking" /\ outcome'[p] # "StorageError"

\* C7: when the pre-read finds a night of the range with left < quantity,
\* the request is rejected with SoldOut and no row is changed, neither in
\* the committed database nor by this connection.
C7_SoldOutAllOrNothing ==
    [][ \A p \in Procs :
          (PreReads(p) /\ \E k \in DOMAIN inv :
                              ReqCovers(req[p], k) /\ inv[k].left < req[p].quantity)
             => /\ pc'[p] = "Rejected"
                /\ outcome'[p] = "SoldOut"
                /\ inv' = inv
                /\ bookings' = bookings
                /\ writer' # p ]_vars

\* SoldOut for a range in which one night had enough stock and one had not
C7_Witness ==
    \E p \in Procs :
        /\ pc[p] = "Rejected" /\ outcome[p] = "SoldOut"
        /\ \E k \in DOMAIN inv :
              ReqCovers(req[p], k) /\ inv[k].left >= req[p].quantity
        /\ \E k \in DOMAIN inv :
              ReqCovers(req[p], k) /\ inv[k].left < req[p].quantity

\* C8: when the range check_in .. check_out-1 matches no inventory row of
\* the room type, the request is rejected with NoInventory and neither the
\* inventory nor the bookings table changes.
C8_NoInventory ==
    [][ \A p \in Procs :
          (PreReads(p) /\ ~\E k \in DOMAIN inv : ReqCovers(req[p], k))
             => /\ pc'[p] = "Rejected"
                /\ outcome'[p] = "NoInventory"
                /\ inv' = inv /\ wInv' = wInv
                /\ bookings' = bookings /\ wBookings' = wBookings
                /\ writer' = writer ]_vars

\* NoInventory for a stay of at least one night past the seeded horizon
C8_Witness ==
    \E p \in Procs :
        /\ pc[p] = "Rejected" /\ outcome[p] = "NoInventory"
        /\ req[p].check_in < req[p].check_out

RECURSIVE SumQty(_, _)
\* sum of quantity over the bookings rows that cover night k
SumQty(B, k) ==
    IF Len(B) = 0 THEN 0
    ELSE (IF BookingCovers(B[1], k) THEN B[1].quantity ELSE 0) + SumQty(Tail(B), k)

Capacity(k) == IF k \in DOMAIN inv THEN SeedLeft ELSE 0

Left(k) == IF k \in DOMAIN inv THEN inv[k].left ELSE 0

\* C9: for every room type and night, the quantity booked for that night
\* never exceeds the capacity seeded for it and equals capacity minus left.
C9_Conservation ==
    \A k \in RoomTypes \X Dates :
        /\ SumQty(bookings, k) <= Capacity(k)
        /\ SumQty(bookings, k) = Capacity(k) - Left(k)

\* C10: quantity is per night.  The commit of a request with quantity q
\* whose range holds n rows reduces left of each of them by exactly q, so
\* the stock of the room type falls by n * q in total.
TotalLeft(I, rt) == LET S == {k \in DOMAIN I : k[1] = rt}
                        f[T \in SUBSET S] ==
                            IF T = {} THEN 0
                            ELSE LET k == CHOOSE x \in T : TRUE
                                 IN I[k].left + f[T \ {k}]
                    IN f[S]

C10_PerNight ==
    [][ \A p \in Procs :
          Commits(p) =>
             LET ks == {k \in DOMAIN inv : ReqCovers(req[p], k)}
             IN /\ \A k \in ks : inv'[k].left = inv[k].left - req[p].quantity
                /\ TotalLeft(inv', req[p].room_type) =
                      TotalLeft(inv, req[p].room_type)
                         - Cardinality(ks) * req[p].quantity ]_vars

\* quantity 2 over two nights seeded with 5 leaves 3 and 3
C10_Witness ==
    \E p \in Procs :
        /\ pc[p] = "Notifying"
        /\ req[p].quantity = 2
        /\ Len(nights[p]) = 2
        /\ \A i \in 1..2 : inv[<<req[p].room_type, nights[p][i].date>>].left = 3

\* handler p serves a /book request
IsBook(p) == req[p].room_type \in RoomTypes

BookingRow(r, id) ==
    [id |-> id, room_type_id |-> r.room_type, check_in |-> r.check_in,
     check_out |-> r.check_out, name |-> r.name, quantity |-> r.quantity]

\* C11: outside DEMO_MODE a book request adds exactly one bookings row,
\* carrying its room type, dates, name and quantity, if and only if it is
\* committed; the row becomes durable in the step that makes the decrements
\* durable, and a rejected or failed request adds none.
C11_LedgerRowIffSuccess ==
    [][ /\ \A p \in Procs :
              Commits(p) =>
                 /\ bookings' = Append(bookings, BookingRow(req[p], Len(bookings) + 1))
                 /\ inv' = DecrementAll(inv, req[p])
        /\ bookings' # bookings => \E p \in Procs : Commits(p)
        /\ Len(bookings') =
              Cardinality({p \in Procs : /\ pc'[p] \in {"Notifying", "Committed"}
                                         /\ outcome'[p] # "DemoOk"}) ]_vars

\* one request is committed with its row, the other failed after it had
\* decremented a night and has no row
C11_Witness ==
    \E p, q \in Procs :
        /\ pc[p] = "Committed" /\ outcome[p] = "Ok"
        /\ pc[q] = "Rejected" /\ idx[q] > 1
        /\ bookings = <<BookingRow(req[p], 1)>>
        /\ req[p].quantity > 1

\* C12: what a request reads from room_inventory never shows a part of
\* another request's decrements: every left that availability returns and
\* every left that the pre-read of book returns equals the seeded stock minus
\* the quantities of the committed bookings of that night.
C12_NoPartialVisible ==
    [][ \A p \in Procs :
          /\ (pc[p] = "Idle" /\ pc'[p] = "Answered" /\ ~DEMO_MODE
                 /\ resp'[p].kind = "availability")
               => \A d \in DOMAIN resp'[p].body :
                     resp'[p].body[d].left =
                        SeedLeft - SumQty(bookings, <<resp'[p].room_type, d>>)
          /\ (pc[p] = "Checking" /\ pc'[p] = "Admitting")
               => \A i \in 1..Len(nights'[p]) :
                     nights'[p][i].left =
                        SeedLeft - SumQty(bookings, <<req[p].room_type, nights'[p][i].date>>)
      ]_vars

\* availability answered for a range of which the writer has decremented the
\* first night and not yet the second
C12_Witness ==
    \E p, q \in Procs :
        /\ pc[p] = "Answered" /\ resp[p].kind = "availability" /\ ~DEMO_MODE
        /\ writer = q /\ pc[q] = "Admitting"
        /\ Len(nights[q]) = 2 /\ idx[q] = 2
        /\ resp[p].room_type = req[q].room_type
        /\ {nights[q][1].date, nights[q][2].date} \subseteq DOMAIN resp[p].body
        /\ wInv[<<req[q].room_type, nights[q][1].date>>].left < SeedLeft
        /\ \A d \in DOMAIN resp[p].body : resp[p].body[d].left = SeedLeft

\* C13: a book request with check_out <= check_in never reaches a storage
\* statement and is rejected with InvalidInput.
C13_InvalidRange ==
    \A p \in Procs :
        (IsBook(p) /\ ~DEMO_MODE /\ ValidQuantity(req[p].quantity)
           /\ req[p].check_out <= req[p].check_in)
          => /\ pc[p] \notin InBlock
             /\ pc[p] = "Rejected" => outcome[p] = "InvalidInput"

\* C14: a book request with quantity < 1 is rejected with InvalidInput by
\* the validation step, which changes neither table and takes no lock; such a
\* request is never inside the with-block.
C14_InvalidQuantity ==
    [][ \A p \in Procs :
          /\ (pc[p] = "Validating" /\ req[p].quantity < 1 /\ pc'[p] # pc[p])
               => /\ pc'[p] = "Rejected"
                  /\ outcome'[p] = "InvalidInput"
                  /\ inv' = inv /\ bookings' = bookings
                  /\ writer' = writer /\ wInv' = wInv /\ wBookings' = wBookings
          /\ (IsBook(p) /\ req[p].quantity < 1)
               => pc'[p] \in {"Validating", "Rejected"} ]_vars

\* quantity 0 rejected for a range that has stock
C14_Witness ==
    \E p \in Procs :
        /\ pc[p] = "Rejected" /\ outcome[p] = "InvalidInput"
        /\ IsBook(p) /\ req[p].quantity = 0
        /\ \E k \in DOMAIN inv : ReqCovers(req[p], k) /\ inv[k].left > 0

AnswersAvailability(p) ==
    pc[p] = "Idle" /\ pc'[p] = "Answered" /\ resp'[p].kind = "availability"

\* C15: outside DEMO_MODE availability(room_type, start, end) with
\* start <= end returns a date d exactly when room_inventory has a row of the
\* room type for d and start <= d <= end, with the row's price and left; a
\* date without a row is absent.
C15_AvailabilityInclusive ==
    [][ \A p \in Procs :
          (AnswersAvailability(p) /\ ~DEMO_MODE /\ resp'[p].start <= resp'[p].end)
             => LET a == resp'[p]
                IN /\ DOMAIN a.body \subseteq Dates
                   /\ \A d \in Dates :
                         /\ d \in DOMAIN a.body <=>
                               (<<a.room_type, d>> \in DOMAIN inv
                                  /\ a.start <= d /\ d <= a.end)
                         /\ d \in DOMAIN a.body =>
                               /\ a.body[d].price = inv[<<a.room_type, d>>].price
                               /\ a.body[d].left = inv[<<a.room_type, d>>].left
      ]_vars

\* a calendar that starts on a booked night, holds the last seeded day and
\* lacks its end date, which has no row
C15_Witness ==
    \E p \in Procs :
        /\ pc[p] = "Answered" /\ resp[p].kind = "availability" /\ ~DEMO_MODE
        /\ resp[p].end = SeedDays + 1
        /\ resp[p].end \notin DOMAIN resp[p].body
        /\ SeedDays \in DOMAIN resp[p].body
        /\ resp[p].start \in DOMAIN resp[p].body
        /\ resp[p].body[resp[p].start].left < SeedLeft

\* C16: availability changes no inventory row, no bookings row and no lock,
\* and two availability calls with the same arguments and no write between
\* them return the same body.
C16_AvailabilityReadOnly ==
    [][ /\ \A p \in Procs :
              AnswersAvailability(p)
                 => /\ inv' = inv /\ bookings' = bookings
                    /\ writer' = writer /\ wInv' = wInv /\ wBookings' = wBookings
        /\ \A p, q \in Procs :
              (/\ pc'[p] = "Answered" /\ resp'[p].kind = "availability"
               /\ pc'[q] = "Answered" /\ resp'[q].kind = "availability"
               /\ resp'[p].room_type = resp'[q].room_type
               /\ resp'[p].start = resp'[q].start /\ resp'[p].end = resp'[q].end)
                 => resp'[p].body = resp'[q].body ]_vars

\* two calls with the same arguments answered with the same calendar
C16_Witness ==
    \E p, q \in Procs :
        /\ p # q /\ ~DEMO_MODE
        /\ pc[p] = "Answered" /\ resp[p].kind = "availability"
        /\ pc[q] = "Answered" /\ resp[q] = resp[p]
        /\ Cardinality(DOMAIN resp[p].body) >= 2

\* inventory rows in the range of the request of handler p
Keys(p) == {k \in DOMAIN inv : ReqCovers(req[p], k)}

DisjointBooks(p, q) ==
    /\ p # q /\ IsBook(p) /\ IsBook(q) /\ ~DEMO_MODE
    /\ Keys(p) # {} /\ Keys(q) # {}
    /\ Keys(p) \cap Keys(q) = {}

\* C17 as stated: a book request is never kept waiting by a request whose
\* keys are disjoint from its own.
C17_Original ==
    \A p, q \in Procs :
        DisjointBooks(p, q) => ~(pc[p] = "Admitting" /\ writer = q)

\* C17 amended: two concurrent book requests with disjoint keys never make
\* each other SoldOut or SoldOutRace and never change each other's rows
\* (each committed request leaves its rows at the seeded stock minus its own
\* quantity); they may keep each other waiting for the write lock.
C17_DisjointIndependent ==
    \A p, q \in Procs :
        (DisjointBooks(p, q) /\ ValidQuantity(req[p].quantity)
           /\ req[p].quantity <= SeedLeft)
          => /\ outcome[p] \notin {"SoldOut", "SoldOutRace"}
             /\ Admittedp(p) =>
                   \A k \in Keys(p) : inv[k].left = SeedLeft - req[p].quantity

\* two committed requests for the same night of different room types
C17_Witness ==
    \E p, q \in Procs :
        /\ DisjointBooks(p, q)
        /\ Admittedp(p) /\ Admittedp(q)
        /\ req[p].room_type # req[q].room_type
        /\ req[p].check_in = req[q].check_in
        /\ req[p].quantity + req[q].quantity > SeedLeft

\* C18: the bookings table is append-only: every step keeps every existing
\* row, with all its fields, at its position.
C18_AppendOnly ==
    [][ /\ Len(bookings') >= Len(bookings)
        /\ \A i \in 1..Len(bookings) : bookings'[i] = bookings[i] ]_vars

\* a second row was appended after the first
C18_Witness ==
    /\ Len(bookings) = 2
    /\ bookings[1].id = 1 /\ bookings[2].id = 2
    /\ bookings[1].check_in # bookings[2].check_in

Min(a, b) == IF a <= b THEN a ELSE b

\* C19: list_bookings(limit) with 1 <= limit <= 100 returns the
\* min(limit, total) rows appended last, the newest first, ids strictly
\* decreasing.
C19_ListNewestFirst ==
    [][ \A p \in Procs :
          (pc[p] = "Idle" /\ pc'[p] = "Answered" /\ resp'[p].kind = "bookings")
             => LET l == resp'[p].limit
                    b == resp'[p].body
                    n == Len(bookings)
                IN /\ l >= LimitMin /\ l <= LimitMax
                   /\ Len(b) = Min(l, n)
                   /\ \A i \in 1..Len(b) : b[i] = bookings[n - i + 1]
                   /\ \A i \in 1..(Len(b) - 1) : b[i].id > b[i + 1].id ]_vars

\* limit 2 answered from a table of three rows
C19_Witness ==
    \E p \in Procs :
        /\ pc[p] = "Answered" /\ resp[p].kind = "bookings"
        /\ resp[p].limit = 2 /\ Len(bookings) = 3
        /\ Len(resp[p].body) = 2
        /\ resp[p].body[1].id = 3 /\ resp[p].body[2].id = 2

\* C20: the e-mail helper is called at most once per request and only in
\* the step after the commit; the call changes neither table, and whether it
\* returns or raises the request ends committed with the success response and
\* its bookings row in place.  A rejected request has no call.
C20_NotifyAfterCommit ==
    [][ \A p \in Procs :
          /\ mail'[p] # mail[p]
               => /\ pc[p] = "Notifying"
                  /\ inv' = inv /\ bookings' = bookings
                  /\ \E i \in 1..Len(bookings) :
                        bookings[i] = BookingRow(req[p], i)
          /\ Len(mail'[p]) <= 1
          /\ Len(mail'[p]) = 1 => (pc'[p] = "Committed" /\ outcome'[p] = "Ok")
          /\ pc'[p] = "Rejected" => mail'[p] = <<>> ]_vars

\* the helper raised and the request is committed all the same
C20_Witness ==
    \E p \in Procs :
        /\ pc[p] = "Committed" /\ outcome[p] = "Ok"
        /\ mail[p] = <<"raised">>
        /\ \E i \in 1..Len(bookings) : bookings[i] = BookingRow(req[p], i)
        /\ \E k \in DOMAIN inv : ReqCovers(req[p], k) /\ inv[k].left < SeedLeft

\* C21: outside DEMO_MODE two book requests with the same payload are two
\* bookings: when both are committed the table holds one row for each and
\* every row of the range is decremented by twice the quantity; when the
\* stock suffices for both, the second is refused only by a storage error,
\* never because the first exists.
C21_NoDedup ==
    \A p, q \in Procs :
        (p # q /\ IsBook(p) /\ req[q] = req[p] /\ Admittedp(p))
          => /\ Admittedp(q) =>
                   /\ bookings = <<BookingRow(req[p], 1), BookingRow(req[p], 2)>>
                   /\ \A k \in Keys(p) :
                         inv[k].left = SeedLeft - 2 * req[p].quantity
             /\ (pc[q] = "Rejected" /\ Keys(p) # {}
                   /\ 2 * req[p].quantity <= SeedLeft)
                  => outcome[q] = "StorageError"

\* the same two-night request for two rooms committed twice
C21_Witness ==
    /\ pc[1] = "Committed" /\ pc[2] = "Committed"
    /\ outcome[1] = "Ok" /\ outcome[2] = "Ok"
    /\ req[1] = req[2]
    /\ req[1].quantity = 2
    /\ Cardinality(Keys(1)) = 2
    /\ Len(bookings) = 2
    /\ \A k \in Keys(1) : inv[k].left = SeedLeft - 4

\* the step is a run of the startup sequence
Boots == boots' = boots + 1

\* C22: room_inventory never holds two rows with the same
\* (room_type_id, date), also after the startup seeding has run again, and
\* every key of the table has its row.
C22_UniqueKeys ==
    /\ \A i, j \in DOMAIN rowids : rowids[i] = rowids[j] => i = j
    /\ Range(rowids) = DOMAIN inv

\* seeded three times, the last time a day later, with a booking made
C22_Witness ==
    /\ boots = 3 /\ today = 2
    /\ Len(rowids) > Len(FirstDb[2])
    /\ <<1, 1>> \in Range(rowids) /\ <<1, SeedDays + 1>> \in Range(rowids)
    /\ inv[<<1, 1>>].left < SeedLeft

\* C23: no committed operation (book, availability, list_bookings, a
\* further startup seeding) deletes an inventory row or increases its left.
C23_NeverCredited ==
    [][ \A k \in DOMAIN inv :
           /\ k \in DOMAIN inv'
           /\ inv'[k].left <= inv[k].left ]_vars

\* a night was booked down to 2 and the database was seeded again twice
C23_Witness ==
    /\ boots = 3
    /\ \E k \in DOMAIN inv : inv[k].left = SeedLeft - 3
    /\ pc[1] = "Answered"

\* C27: a run of the startup sequence on the day of the previous run adds
\* no room_types row and no room_inventory row and changes no inventory row.
C27_SeedIdempotent ==
    [][ (Boots /\ today' = today)
           => /\ room_types' = room_types
              /\ rowids' = rowids
              /\ inv' = inv ]_vars

\* the terminal outcomes of an attempt: Committed from c.commit() on (the
\* e-mail is sent after it), Rejected once the handler has raised
CommittedOutcome(p) == pc[p] \in {"Notifying", "Committed"}

RejectedOutcome(p) == pc[p] = "Rejected"

\* the moves of the state machine of one attempt outside DEMO_MODE
MachineMoves ==
    {<<"Idle", "Validating">>,
     <<"Validating", "Checking">>, <<"Validating", "Rejected">>,
     <<"Checking", "Admitting">>, <<"Checking", "Rejected">>,
     <<"Admitting", "Committing">>, <<"Admitting", "Rejected">>,
     <<"Committing", "Notifying">>, <<"Committing", "Rejected">>,
     <<"Notifying", "Committed">>}

\* C24: outside DEMO_MODE a book attempt moves only along Validating ->
\* Checking -> Admitting -> Committed, or to Rejected from a state before the
\* commit; once Committed or Rejected it keeps that outcome; the decrement
\* loop never goes back; and with every handler scheduled each attempt
\* reaches Committed or Rejected, whatever the other attempt does.
C24_StateMachine ==
    /\ [][ \A p \in Procs :
              /\ (IsBook(p) /\ ~DEMO_MODE /\ pc'[p] # pc[p])
                    => <<pc[p], pc'[p]>> \in MachineMoves
              /\ CommittedOutcome(p) => pc'[p] \in {"Notifying", "Committed"}
              /\ RejectedOutcome(p) => (pc'[p] = "Rejected" /\ outcome'[p] = outcome[p])
              /\ (IsBook(p) /\ pc[p] = "Admitting") => idx'[p] >= idx[p] ]_vars
    /\ \A p \in Procs :
          (pc[p] = "Validating") ~> (CommittedOutcome(p) \/ RejectedOutcome(p))

\* an attempt that passed the pre-read is rejected by its first guarded
\* write, the concurrent attempt is committed
C24_Witness ==
    \E p, q \in Procs :
        /\ pc[p] = "Rejected" /\ outcome[p] = "SoldOutRace"
        /\ Len(nights[p]) = 2
        /\ pc[q] = "Committed" /\ outcome[q] = "Ok"

\* handler p executes the guarded UPDATE of the night its loop is at
Writes(p) ==
    /\ pc[p] = "Admitting" /\ idx[p] <= Len(nights[p])
    /\ \/ idx'[p] = idx[p] + 1
       \/ pc'[p] = "Rejected" /\ outcome'[p] = "SoldOutRace"

\* C25: the guarded UPDATE is applied exactly when the row has
\* left >= quantity at the time of the write, quantity = left included; when
\* applied it takes quantity from left, when not applied the row stays as
\* it is and the request is rejected.
C25_GuardedWrite ==
    [][ \A p \in Procs :
          Writes(p) =>
             LET k == <<req[p].room_type, nights[p][idx[p]].date>>
                 q == req[p].quantity
             IN IF wInv[k].left >= q
                THEN /\ idx'[p] = idx[p] + 1
                     /\ writer' = p
                     /\ wInv'[k].left = wInv[k].left - q
                ELSE /\ pc'[p] = "Rejected" /\ outcome'[p] = "SoldOutRace"
                     /\ wInv'[k] = wInv[k] /\ inv'[k] = inv[k]
                     /\ idx'[p] = idx[p] ]_vars

\* two nights booked down to 0 by a request for exactly the rooms left, and
\* the request is committed
C25_Witness ==
    \E p, q \in Procs :
        /\ p # q /\ pc[p] = "Committed" /\ pc[q] = "Committed"
        /\ outcome[p] = "Ok" /\ outcome[q] = "Ok"
        /\ Cardinality(Keys(q)) = 2
        /\ \A k \in Keys(q) : inv[k].left = 0
        /\ bookings[2] = BookingRow(req[q], 2)
        /\ req[q].quantity = SeedLeft - req[p].quantity

\* C26: a book request for room type T and [check_in, check_out) changes
\* only left of rows of T with check_in <= date < check_out, in the
\* connection's own pages and, at its commit, in the database; no step
\* changes a price or adds or deletes an inventory row.
C26_BookFrame ==
    [][ /\ DOMAIN inv' = DOMAIN inv /\ DOMAIN wInv' = DOMAIN wInv
        /\ rowids' = rowids /\ room_types' = room_types
        /\ \A k \in DOMAIN inv :
              /\ inv'[k].price = inv[k].price
              /\ wInv'[k].price = wInv[k].price
              /\ inv'[k] # inv[k] =>
                    \E p \in Procs : Commits(p) /\ ReqCovers(req[p], k)
              /\ (writer' # NoWriter /\ wInv'[k] # wInv[k]) =>
                    (ReqCovers(req[writer'], k) /\ pc[writer'] = "Admitting") ]_vars

\* a committed request for the second night of room type 1: that row alone
\* differs from the seeded one
C26_Witness ==
    \E p \in Procs :
        /\ pc[p] = "Committed" /\ outcome[p] = "Ok"
        /\ req[p].room_type = 1 /\ req[p].check_in = 2 /\ req[p].check_out = 3
        /\ Len(bookings) = 1
        /\ inv[<<1, 2>>].left = SeedLeft - req[p].quantity
        /\ \A k \in DOMAIN inv \ {<<1, 2>>} : inv[k] = FirstDb[3][k]
        /\ inv[<<1, 2>>].price = FirstDb[3][<<1, 2>>].price

\* C30: with DEMO_MODE on, every request that reaches book (its payload
\* passes BookIn) gets the success confirmation, whatever the stock, and no
\* step changes room_inventory or bookings or takes the write lock;
\* availability answers every date of start .. end with left = 99 and
\* price = 0, whatever room_inventory holds.
C30_DemoMode ==
    [][ DEMO_MODE =>
          /\ inv' = inv /\ bookings' = bookings
          /\ wInv' = wInv /\ wBookings' = wBookings /\ writer' = NoWriter
          /\ \A p \in Procs :
                /\ (pc[p] = "Validating" /\ ValidQuantity(req[p].quantity)
                       /\ pc'[p] # pc[p])
                     => (pc'[p] = "Committed" /\ outcome'[p] = "DemoOk")
                /\ pc'[p] \notin InBlock
                /\ mail'[p] = <<>>
                /\ AnswersAvailability(p)
                     => /\ DOMAIN resp'[p].body = resp'[p].start .. resp'[p].end
                        /\ \A d \in DOMAIN resp'[p].body :
                              resp'[p].body[d] = [price |-> 0, left |-> DemoLeft] ]_vars

\* a stay past the seeded days confirmed, and a calendar with a date that
\* has no inventory row
C30_Witness ==
    \E p, q \in Procs :
        /\ DEMO_MODE
        /\ pc[p] = "Committed" /\ outcome[p] = "DemoOk"
        /\ req[p].check_in > SeedDays /\ req[p].check_out > req[p].check_in
        /\ req[p].quantity = MaxQty
        /\ pc[q] = "Answered" /\ resp[q].kind = "availability"
        /\ resp[q].start = 1 /\ resp[q].end = SeedDays + 2
        /\ resp[q].body[SeedDays + 2].left = DemoLeft
        /\ inv = FirstDb[3] /\ bookings = <<>>

\* handler p commits its enrollment and returns ok True
Enrolls(p) == pc[p] = "Confirming" /\ pc'[p] = "Returned"

\* C28: every enroll call that returns ok True reduces by exactly 1 the
\* seats of the course it selected as the latest (the course still being in
\* the table).
C28_EnrollTakesSeat ==
    [][ \A p \in Procs :
          (Enrolls(p) /\ seen[p].id \in LiveIds(courses))
             => courses'[seen[p].id].seats = courses[seen[p].id].seats - 1 ]_vars

\* C29: no course ever has seats < 0, in the database or in the pages of a
\* writer, and an enroll call whose SELECT returns a course with seats <= 0
\* returns ok False, changes neither table and takes no lock.
C29_SeatsNonNegative ==
    [][ /\ \A i \in 1..Len(courses') : courses'[i].seats >= 0
        /\ \A i \in 1..Len(wCourses') : wCourses'[i].seats >= 0
        /\ \A p \in Procs :
              /\ (/\ pc[p] = "Selecting" /\ pc'[p] # pc[p]
                   /\ outcome'[p] # "StorageError"
                   /\ LatestCourse(courses) # NoRow
                   /\ LatestCourse(courses).seats <= 0)
                  => /\ pc'[p] = "Returned" /\ outcome'[p] = "Full"
                     /\ courses' = courses /\ enrollments' = enrollments
                     /\ wCourses' = wCourses /\ wEnrollments' = wEnrollments
                     /\ writer' = writer
              /\ (pc[p] = "Returned" /\ outcome[p] = "Full")
                  => (pc'[p] = "Returned" /\ outcome'[p] = "Full") ]_vars

\* one call took the last seat of the course, the other then found the
\* course full
C29_Witness ==
    \E p, q \in Procs :
        /\ pc[p] = "Returned" /\ outcome[p] = "Ok" /\ seen[p].seats = 1
        /\ pc[q] = "Returned" /\ outcome[q] = "Full" /\ seen[q].seats = 0
        /\ seen[q].id = seen[p].id
        /\ courses[seen[p].id].seats = 0
        /\ Len(enrollments) = 1
====
